---- MODULE Spec2Model ----
(***************************************************************************)
(* A model of src/src/data.rs of SerialMonitor:                            *)
(*   - the process-wide PlotData id counter PLOT_ID and the constructors   *)
(*     PlotData::new, PlotData::console, PlotData::update_internal_ids;    *)
(*   - SerialMonitorData::serialize against the file at the given path;    *)
(*   - detect_single_shot, as the scan it runs over the selected channel.  *)
(*                                                                         *)
(* Numbers.  f64 timestamps and sample values are modelled as integers on  *)
(* a fixed-point grid (the concrete scenario uses 1/100 s for time and 1/2 *)
(* for values), and arithmetic on them is exact.  The baseline, a mean, is *)
(* kept as the pair (sum, count) and compared by cross-multiplication, so  *)
(* no division is rounded.  Floating-point rounding (a difference of two   *)
(* f64 timestamps that is mathematically equal to the window may compare   *)
(* below it), NaN and infinities are outside the model.  usize is modelled *)
(* with UsizeBits bits.                                                    *)
(***************************************************************************)
EXTENDS Integers, Sequences, FiniteSets, TLC

VARIABLES
    \* ---- detect_single_shot ----
    values,          \* the argument values: a sequence of channels
    trigger_config,  \* the argument trigger_config: [window, tolerance, input_slot]
    dpc,             \* where the call stands: "off", "call", "scan" or "done"
    baseline,        \* <<sum, count>> of baseline_slice (line 223 divides them)
    window_start,    \* the loop index of line 229 (0-based, as in the source)
    event_start,     \* Option<f64>
    last_event,      \* Option<(f64, f64)>
    stable_buffer,   \* Vec<[f64; 2]>
    closed,          \* history: every event the scan closed, in order
    ret,             \* what the call returned
    \* ---- PlotData ids ----
    PLOT_ID,         \* the static AtomicUsize of line 146
    lpc,             \* the session load: "off", "idle", "loaded" or "aborted"
    loaded,          \* the plot list deserialize returned, not yet reconciled
    log,             \* history: the calls made so far, in the order of their
                     \* atomic steps, with the ids they were given
    \* ---- SerialMonitorData::serialize ----
    file,            \* the content of the file at path: Absent or a byte sequence
    spc,             \* where the call stands: "off", "call", "encoded", "created" or "done"
    data,            \* the argument data (its plot list)
    config,          \* the local config: the encoded document
    prev,            \* history: the content of the file when the call began
    sret             \* what the call returned: "pending", "Ok" or "Err"

detVars == <<values, trigger_config, dpc, baseline, window_start, event_start,
             last_event, stable_buffer, closed, ret>>
idVars == <<PLOT_ID, lpc, loaded, log>>
fileVars == <<file, spc, data, config, prev, sret>>

vars == <<detVars, idVars, fileVars>>

----------------------------------------------------------------------------
(* Bounds of the detector's enumerated inputs: samples per channel, window,
   tolerance, and input_slot *)
MaxLen == 4
MaxWindow == 2
MaxTol == 1
MaxChannels == 2

(* The grid the enumerated samples lie on: first timestamps, timestamp
   increments and values *)
FirstTimes == {1}
Deltas == {0, 1, 2}
Vals == {0, 1, 2}

----------------------------------------------------------------------------
(* Option<T> *)
None == <<>>
Some(x) == <<x>>
IsSome(o) == o # <<>>
Unwrap(o) == o[1]

(* The outcome of a call: returned a value, or panicked *)
Pending == [tag |-> "Pending", val |-> <<>>]
Returned(v) == [tag |-> "Returned", val |-> v]
Panicked == [tag |-> "Panicked", val |-> <<>>]

Abs(x) == IF x < 0 THEN -x ELSE x

RECURSIVE SumSeq(_)
SumSeq(s) == IF s = <<>> THEN 0 ELSE Head(s) + SumSeq(Tail(s))

(* A sample is [f64; 2]: <<timestamp, value>> *)
Time(p) == p[1]
Value(p) == p[2]

----------------------------------------------------------------------------
(* detect_single_shot *)

(* a mutant of InsufficientData: > for >= *)
InsufficientData_OffByOne(v, cfg) ==
    \/ cfg.input_slot > Len(v)
    \/ (cfg.input_slot < Len(v) /\ Len(v[cfg.input_slot + 1]) < 2)

(* line 207: the early return; || does not evaluate its right side when the
   left is true *)
InsufficientData(v, cfg) ==
    \/ cfg.input_slot >= Len(v)
    \/ Len(v[cfg.input_slot + 1]) < 2

(* values[input_slot] of lines 207 and 211 indexes in bounds *)
IndexInBounds(v, cfg) == cfg.input_slot < Len(v)

(* lines 213-217: the values of the samples within window of the first one *)
BaselineSlice(chan, window) ==
    LET first_time == Time(chan[1])
        kept == SelectSeq(chan, LAMBDA n : Time(n) - first_time <= window)
    IN  [i \in 1..Len(kept) |-> Value(kept[i])]

(* line 223, kept as <<sum, count>> *)
Baseline(slice) == <<SumSeq(slice), Len(slice)>>

(* a mutant of Deviates: >= for > *)
Deviates_AtTolerance(point, b, tolerance) ==
    Abs(point[2] * b[2] - b[1]) >= tolerance * b[2]

(* lines 231, 233: (point[1] - baseline).abs() > tolerance, with
   baseline = b[1] / b[2], both sides multiplied by the count b[2] > 0 *)
Deviates(point, b, tolerance) ==
    Abs(Value(point) * b[2] - b[1]) > tolerance * b[2]

(* a mutant of TimeSpan: the run's first timestamp is not subtracted *)
TimeSpan_NoFirst(buf) == buf[Len(buf)][1]

(* line 241 *)
TimeSpan(buf) == Time(buf[Len(buf)]) - Time(buf[1])

(* a mutant of SpanReached: > for >= *)
SpanReached_Strict(buf, window) == TimeSpan(buf) > window

(* line 242 *)
SpanReached(buf, window) == TimeSpan(buf) >= window

(* a mutant of ClosedEvent: the start is not moved back by the window *)
ClosedEvent_NoLeadIn(start_time, buf, window) == <<start_time, buf[Len(buf)][1]>>

(* line 243 *)
ClosedEvent(start_time, buf, window) == <<start_time - window, Time(buf[Len(buf)])>>

Selected == values[trigger_config.input_slot + 1]

(* lines 203-227: read the configuration, return early or set up the scan *)
DetectEnter ==
    /\ dpc = "call"
    /\ IF InsufficientData(values, trigger_config)
       THEN /\ ret' = Returned(None)
            /\ dpc' = "done"
            /\ UNCHANGED baseline
       ELSE IF ~IndexInBounds(values, trigger_config)
       THEN /\ ret' = Panicked
            /\ dpc' = "done"
            /\ UNCHANGED baseline
       ELSE LET slice == BaselineSlice(Selected, trigger_config.window)
            IN  IF slice = <<>>
                THEN /\ ret' = Returned(None)
                     /\ dpc' = "done"
                     /\ UNCHANGED baseline
                ELSE /\ baseline' = Baseline(slice)
                     /\ dpc' = "scan"
                     /\ UNCHANGED ret
    /\ window_start' = 0
    /\ event_start' = None
    /\ last_event' = None
    /\ stable_buffer' = <<>>
    /\ UNCHANGED <<values, trigger_config, closed>>
    /\ UNCHANGED <<idVars, fileVars>>

(* lines 229-248: one iteration of the loop *)
ScanStep ==
    /\ dpc = "scan"
    /\ window_start < Len(Selected)
    /\ LET point == Selected[window_start + 1]
           window == trigger_config.window
       IN  IF Deviates(point, baseline, trigger_config.tolerance)
           THEN /\ event_start' = IF event_start = None THEN Some(Time(point))
                                                        ELSE event_start
                /\ stable_buffer' = <<>>
                /\ UNCHANGED <<last_event, closed>>
           ELSE IF IsSome(event_start)
           THEN LET pushed == Append(stable_buffer, point)
                IN  IF SpanReached(pushed, window)
                    THEN /\ last_event' = Some(ClosedEvent(Unwrap(event_start), pushed, window))
                         /\ closed' = Append(closed, ClosedEvent(Unwrap(event_start), pushed, window))
                         /\ event_start' = None
                         /\ stable_buffer' = <<>>
                    ELSE /\ stable_buffer' = pushed
                         /\ UNCHANGED <<event_start, last_event, closed>>
           ELSE UNCHANGED <<event_start, last_event, stable_buffer, closed>>
    /\ window_start' = window_start + 1
    /\ UNCHANGED <<values, trigger_config, dpc, baseline, ret>>
    /\ UNCHANGED <<idVars, fileVars>>

(* line 250 *)
DetectReturn ==
    /\ dpc = "scan"
    /\ window_start = Len(Selected)
    /\ ret' = Returned(last_event)
    /\ dpc' = "done"
    /\ UNCHANGED <<values, trigger_config, baseline, window_start, event_start,
                   last_event, stable_buffer, closed>>
    /\ UNCHANGED <<idVars, fileVars>>

----------------------------------------------------------------------------
(* The inputs of detect_single_shot *)

RECURSIVE Timestamps(_, _)
(* the timestamps t0, t0 + d1, t0 + d1 + d2, ...: non-decreasing *)
Timestamps(t0, dts) ==
    IF dts = <<>> THEN <<t0>>
    ELSE <<t0>> \o Timestamps(t0 + Head(dts), Tail(dts))

(* the channel with the timestamps t0, t0 + dts[1], ... and the values vs *)
Channel(t0, dts, vs) ==
    LET ts == Timestamps(t0, dts) IN [i \in 1..Len(vs) |-> <<ts[i], vs[i]>>]

(* the channels of at most 2 samples, and a flat channel *)
ShortChannels ==
    {<<>>} \cup { Channel(t0, dts, vs) :
                    t0 \in FirstTimes, dts \in [1..0 -> Deltas], vs \in [1..1 -> Vals] }
           \cup { Channel(t0, dts, vs) :
                    t0 \in FirstTimes, dts \in [1..1 -> Deltas], vs \in [1..2 -> Vals] }
FlatChannel == << <<0, 0>>, <<1, 0>> >>

(* the channel lists of several channels: a flat and a short channel in
   either order; and the empty list *)
ShortLists ==
    {<<>>} \cup { <<FlatChannel, c>> : c \in ShortChannels }
           \cup { <<c, FlatChannel>> : c \in ShortChannels }

Configs == [window : 0..MaxWindow, tolerance : 0..MaxTol, input_slot : 0..MaxChannels]

(* The scenario of the specification's section 8, in units of 1/100 s and 1/2:
   [(0,0),(0.01,0),(0.02,0),(0.1,5),(0.11,5),(0.2,0),(0.21,0),(0.22,0)],
   window = 0.05, tolerance = 0.5, input_slot = 0 *)
ScenarioValues ==
    << << <<0, 0>>, <<1, 0>>, <<2, 0>>, <<10, 10>>, <<11, 10>>,
          <<20, 0>>, <<21, 0>>, <<22, 0>> >> >>
ScenarioConfig == [window |-> 5, tolerance |-> 1, input_slot |-> 0]

(* Two deviations with window = 0.05, each followed by a stable run that
   reaches the window, then a third deviation whose stable run does not: too
   long for the enumerated channels, same units as the scenario above *)
TwoEventValues ==
    << << <<0, 0>>, <<1, 0>>, <<10, 10>>, <<20, 0>>, <<26, 0>>, <<30, 10>>,
          <<40, 0>>, <<43, 0>>, <<46, 0>>, <<47, 10>>, <<50, 0>> >> >>

DetOff ==
    /\ values = <<>>
    /\ trigger_config = [window |-> 0, tolerance |-> 0, input_slot |-> 0]
    /\ dpc = "off"
    /\ baseline = <<0, 0>>
    /\ window_start = 0
    /\ event_start = None
    /\ last_event = None
    /\ stable_buffer = <<>>
    /\ closed = <<>>
    /\ ret = Pending

DetStart ==
    /\ \/ /\ \E n \in 0..MaxLen :
                \E t0 \in FirstTimes, dts \in [1..(n-1) -> Deltas], vs \in [1..n -> Vals] :
                    values = << IF n = 0 THEN <<>> ELSE Channel(t0, dts, vs) >>
          /\ trigger_config \in Configs
       \/ /\ values \in ShortLists
          /\ trigger_config \in Configs
       \/ /\ values \in {ScenarioValues, TwoEventValues}
          /\ trigger_config = ScenarioConfig
    /\ dpc = "call"
    /\ baseline = <<0, 0>>
    /\ window_start = 0
    /\ event_start = None
    /\ last_event = None
    /\ stable_buffer = <<>>
    /\ closed = <<>>
    /\ ret = Pending

----------------------------------------------------------------------------
(* PlotData and its id counter *)

(* usize has UsizeBits bits here; fetch_add wraps on overflow *)
UsizeBits == 3
Modulus == 2 ^ UsizeBits
USIZE_MAX == Modulus - 1

(* Bounds of the id model *)
MaxOps == 5
MaxPlots == 2
MaxLoads == 2

Names == {"a", "b"}

(* lines 150-156 *)
NewPlot(id, name) ==
    [id |-> id, name |-> name, hidden |-> <<>>, height |-> 256, console |-> FALSE]

(* lines 160-166 *)
ConsolePlot(id) ==
    [id |-> id, name |-> "Console", hidden |-> <<>>, height |-> 192, console |-> TRUE]

(* a mutant of FetchAddNext: the counter is read, not incremented *)
FetchAddNext_NoAdd(cur) == cur

(* the value fetch_add(1, SeqCst) leaves in the counter (lines 151, 161) *)
FetchAddNext(cur) == (cur + 1) % Modulus

(* line 170: the greatest id of a non-empty plot list *)
MaxId(plots) == CHOOSE m \in { plots[i].id : i \in DOMAIN plots } :
                    \A i \in DOMAIN plots : plots[i].id <= m

(* a mutant of StoredId: max.id is stored, not max.id + 1 *)
StoredId_NoSucc(plots) == MaxId(plots)

(* line 171: max.id + 1, as a build without overflow checks computes it *)
StoredId(plots) == (MaxId(plots) + 1) % Modulus

(* an entry of the history *)
Event(op, plot, plots, before, after) ==
    [op |-> op, plot |-> plot, plots |-> plots, before |-> before, after |-> after]

NoPlot == NewPlot(0, "")
IsConstruct(e) == e.op \in {"new", "console"}
Loads == Cardinality({ i \in DOMAIN log : log[i].op = "deserialize" })

(* PlotData::new.  The call touches shared state in one atomic step, the
   fetch_add; the rest builds a value nobody else sees. *)
New(name) ==
    /\ lpc \in {"idle", "loaded", "aborted"}
    /\ Len(log) < MaxOps
    /\ log' = Append(log, Event("new", NewPlot(PLOT_ID, name), <<>>, PLOT_ID, FetchAddNext(PLOT_ID)))
    /\ PLOT_ID' = FetchAddNext(PLOT_ID)
    /\ UNCHANGED <<lpc, loaded>>
    /\ UNCHANGED <<detVars, fileVars>>

(* PlotData::console *)
Console ==
    /\ lpc \in {"idle", "loaded", "aborted"}
    /\ Len(log) < MaxOps
    /\ log' = Append(log, Event("console", ConsolePlot(PLOT_ID), <<>>, PLOT_ID, FetchAddNext(PLOT_ID)))
    /\ PLOT_ID' = FetchAddNext(PLOT_ID)
    /\ UNCHANGED <<lpc, loaded>>
    /\ UNCHANGED <<detVars, fileVars>>

(* the ids a persisted document may carry *)
DocIds == {1, 2, 3, USIZE_MAX}

(* the plot lists of the documents: distinct ids, any order *)
PlotLists ==
    UNION { { [i \in 1..n |-> NewPlot(f[i], "a")] :
                f \in { g \in [1..n -> DocIds] : \A i, j \in 1..n : i # j => g[i] # g[j] } } :
            n \in 0..MaxPlots }

(* SerialMonitorData::deserialize succeeds (lines 194-199): the caller now
   holds the document's plot list *)
Deserialize ==
    /\ lpc = "idle"
    /\ Len(log) < MaxOps
    /\ Loads < MaxLoads
    /\ \E plots \in PlotLists :
          /\ loaded' = plots
          /\ log' = Append(log, Event("deserialize", NoPlot, plots, PLOT_ID, PLOT_ID))
    /\ lpc' = "loaded"
    /\ UNCHANGED PLOT_ID
    /\ UNCHANGED <<detVars, fileVars>>

(* PlotData::update_internal_ids on the loaded plots (lines 169-173) *)
UpdateInternalIds ==
    /\ lpc = "loaded"
    /\ PLOT_ID' = IF loaded = <<>> THEN PLOT_ID ELSE StoredId(loaded)
    /\ log' = Append(log, Event("update", NoPlot, loaded, PLOT_ID, PLOT_ID'))
    /\ lpc' = "idle"
    /\ loaded' = <<>>
    /\ UNCHANGED <<detVars, fileVars>>

(* line 171 in a build with overflow checks: max.id + 1 panics at usize::MAX *)
UpdateInternalIdsOverflow ==
    /\ lpc = "loaded"
    /\ loaded # <<>>
    /\ MaxId(loaded) = USIZE_MAX
    /\ log' = Append(log, Event("panic", NoPlot, loaded, PLOT_ID, PLOT_ID))
    /\ lpc' = "aborted"
    /\ loaded' = <<>>
    /\ UNCHANGED PLOT_ID
    /\ UNCHANGED <<detVars, fileVars>>

IdOff ==
    /\ PLOT_ID = 1
    /\ lpc = "off"
    /\ loaded = <<>>
    /\ log = <<>>

(* line 146 *)
IdStart ==
    /\ PLOT_ID = 1
    /\ lpc = "idle"
    /\ loaded = <<>>
    /\ log = <<>>

----------------------------------------------------------------------------
(* SerialMonitorData::serialize *)

(* Bounds of the documents written *)
MaxFilePlots == 2
MaxFileId == 2

Absent == [exists |-> FALSE, bytes |-> <<>>]
Content(bytes) == [exists |-> TRUE, bytes |-> bytes]

Digits == <<"0", "1", "2", "3", "4", "5", "6", "7", "8", "9">>

RECURSIVE Decimal(_)
Decimal(n) == IF n < 10 THEN <<Digits[n + 1]>>
              ELSE Decimal(n \div 10) \o <<Digits[(n % 10) + 1]>>

RECURSIVE EncodeIds(_)
EncodeIds(plots) ==
    IF plots = <<>> THEN <<>>
    ELSE Decimal(Head(plots)) \o
         (IF Tail(plots) = <<>> THEN <<>> ELSE <<",">> \o EncodeIds(Tail(plots)))

(* line 187: the document's text; of the aggregate only the plot ids vary *)
Encode(plots) == <<"[">> \o EncodeIds(plots) \o <<"]">>

FilePlots == UNION { [1..n -> 1..MaxFileId] : n \in 0..MaxFilePlots }

Remaining == Len(config) - Len(file.bytes)

(* line 187 succeeds *)
SerializeEncode ==
    /\ spc = "call"
    /\ config' = Encode(data)
    /\ spc' = "encoded"
    /\ UNCHANGED <<file, data, prev, sret>>
    /\ UNCHANGED <<detVars, idVars>>

(* lines 187-188: to_string_pretty fails and ? returns the error *)
SerializeEncodeErr ==
    /\ spc = "call"
    /\ sret' = "Err"
    /\ spc' = "done"
    /\ UNCHANGED <<file, data, config, prev>>
    /\ UNCHANGED <<detVars, idVars>>

(* line 189: File::create opens the file, creating or truncating it *)
SerializeCreate ==
    /\ spc = "encoded"
    /\ file' = Content(<<>>)
    /\ spc' = "created"
    /\ UNCHANGED <<data, config, prev, sret>>
    /\ UNCHANGED <<detVars, idVars>>

(* line 189: File::create fails *)
SerializeCreateErr ==
    /\ spc = "encoded"
    /\ sret' = "Err"
    /\ spc' = "done"
    /\ UNCHANGED <<file, data, config, prev>>
    /\ UNCHANGED <<detVars, idVars>>

(* line 190: one write of write_all's loop takes n >= 1 of the bytes left *)
SerializeWrite ==
    /\ spc = "created"
    /\ Remaining > 0
    /\ \E n \in 1..Remaining :
          file' = Content(file.bytes \o SubSeq(config, Len(file.bytes) + 1, Len(file.bytes) + n))
    /\ UNCHANGED <<spc, data, config, prev, sret>>
    /\ UNCHANGED <<detVars, idVars>>

(* line 190: a write fails and ? returns the error *)
SerializeWriteErr ==
    /\ spc = "created"
    /\ Remaining > 0
    /\ sret' = "Err"
    /\ spc' = "done"
    /\ UNCHANGED <<file, data, config, prev>>
    /\ UNCHANGED <<detVars, idVars>>

(* lines 190-191: everything is written *)
SerializeReturnOk ==
    /\ spc = "created"
    /\ Remaining = 0
    /\ sret' = "Ok"
    /\ spc' = "done"
    /\ UNCHANGED <<file, data, config, prev>>
    /\ UNCHANGED <<detVars, idVars>>

FileOff ==
    /\ file = Absent
    /\ spc = "off"
    /\ data = <<>>
    /\ config = <<>>
    /\ prev = Absent
    /\ sret = "pending"

(* a call of serialize on a path that holds nothing or an earlier document *)
FileStart ==
    /\ file \in {Absent} \cup { Content(Encode(d)) : d \in FilePlots }
    /\ spc = "call"
    /\ data \in FilePlots
    /\ config = <<>>
    /\ prev = file
    /\ sret = "pending"

----------------------------------------------------------------------------
(* The specifications *)

DetNext == DetectEnter \/ ScanStep \/ DetectReturn

(* the constructors racing with a session load *)
RaceNext ==
    \/ \E name \in Names : New(name)
    \/ Console
    \/ Deserialize
    \/ UpdateInternalIds
    \/ UpdateInternalIdsOverflow

(* the same calls one after the other: no constructor runs between
   deserialize and update_internal_ids *)
SeqNext ==
    \/ lpc = "idle" /\ \E name \in Names : New(name)
    \/ lpc = "idle" /\ Console
    \/ Deserialize
    \/ UpdateInternalIds
    \/ UpdateInternalIdsOverflow

(* the constructors alone *)
ConstructNext ==
    \/ \E name \in Names : New(name)
    \/ Console

FileNext ==
    \/ SerializeEncode
    \/ SerializeEncodeErr
    \/ SerializeCreate
    \/ SerializeCreateErr
    \/ SerializeWrite
    \/ SerializeWriteErr
    \/ SerializeReturnOk

InitDetect == DetStart /\ IdOff /\ FileOff
InitIds == DetOff /\ IdStart /\ FileOff
InitFile == DetOff /\ IdOff /\ FileStart

SpecDetect == InitDetect /\ [][DetNext]_vars
SpecRace == InitIds /\ [][RaceNext]_vars
SpecSeq == InitIds /\ [][SeqNext]_vars
SpecConstruct == InitIds /\ [][ConstructNext]_vars
SpecFile == InitFile /\ [][FileNext]_vars

Init == InitDetect \/ InitIds \/ InitFile

Next == DetNext \/ RaceNext \/ FileNext

Spec == Init /\ [][Next]_vars

----------------------------------------------------------------------------
(* What the claims about detect_single_shot speak of, stated over the inputs
   alone: none of these definitions uses the scan above. *)

SlotInRange == trigger_config.input_slot < Len(values)
Chan == values[trigger_config.input_slot + 1]
ScanRan == SlotInRange /\ Len(Chan) >= 2

(* the indices of the samples within window of the first one *)
InitialWindow == { i \in 1..Len(Chan) : Chan[i][1] - Chan[1][1] <= trigger_config.window }

RECURSIVE SumOver(_)
SumOver(I) ==
    IF I = {} THEN 0
    ELSE LET i == CHOOSE k \in I : TRUE IN Chan[i][2] + SumOver(I \ {i})

(* |value_i - mean(I)| <= tolerance, for a non-empty index set I *)
WithinTolOfMean(i, I) ==
    Abs(Chan[i][2] * Cardinality(I) - SumOver(I)) <= trigger_config.tolerance * Cardinality(I)

(* sample i is out of tolerance of the baseline *)
Out(i) == ~WithinTolOfMean(i, InitialWindow)

Least(S) == CHOOSE x \in S : \A y \in S : x <= y
Greatest(S) == CHOOSE x \in S : \A y \in S : x >= y

(* the first out-of-tolerance sample after index p, 0 when there is none *)
FirstOutAfter(p) ==
    LET S == { i \in (p+1)..Len(Chan) : Out(i) } IN IF S = {} THEN 0 ELSE Least(S)

(* j ends an unbroken in-tolerance run, begun after the event start i, whose
   span has reached the window *)
RunReaches(i, j) ==
    /\ ~Out(j)
    /\ LET k == Greatest({ l \in i..j : Out(l) }) + 1
       IN  Chan[j][1] - Chan[k][1] >= trigger_config.window

(* the sample at which the event pending since i closes, 0 when it never does *)
CloseOf(i) ==
    LET S == { j \in (i+1)..Len(Chan) : RunReaches(i, j) } IN IF S = {} THEN 0 ELSE Least(S)

RECURSIVE EventsAfter(_)
(* the events that close after index p, in order *)
EventsAfter(p) ==
    LET i == FirstOutAfter(p) IN
    IF i = 0 THEN <<>>
    ELSE LET j == CloseOf(i) IN
         IF j = 0 THEN <<>>
         ELSE << <<Chan[i][1] - trigger_config.window, Chan[j][1]>> >> \o EventsAfter(j)

IsScenario == values = ScenarioValues /\ trigger_config = ScenarioConfig

\* C5 (as stated): on the section 8 scenario detect_single_shot returns
\* Some((0.05, 0.22)), that is Some((5, 22)) on the grid.
C5_ScenarioReturnsEvent ==
    (IsScenario /\ dpc = "done") => ret = Returned(Some(<<5, 22>>))

\* C5 (amended): on the section 8 scenario detect_single_shot returns None: the
\* deviation starts at t = 0.1, but the stable run that starts at t = 0.2 spans
\* only 0.02 < 0.05 at the last sample, so no event closes.
C5_ScenarioReturnsNone ==
    (IsScenario /\ dpc = "done") =>
        /\ ret = Returned(None)
        /\ closed = <<>>
        /\ event_start = Some(10)
        /\ TimeSpan(stable_buffer) = 2

C5_Witness ==
    /\ IsScenario
    /\ dpc = "done"
    /\ window_start = 8
    /\ Len(stable_buffer) = 3

\* C6 (as stated): a selected channel whose values are all within tolerance of
\* the mean of all the channel's values makes detect_single_shot return None.
C6_WithinOwnMeanReturnsNone ==
    (dpc = "done" /\ SlotInRange /\ Len(Chan) >= 1
        /\ \A i \in 1..Len(Chan) : WithinTolOfMean(i, 1..Len(Chan)))
    => ret = Returned(None)

\* C6 (amended): a selected channel whose values are all within tolerance of
\* the baseline (the mean of the values of the samples whose timestamp is
\* within window of the first timestamp) makes detect_single_shot return None.
C6_WithinBaselineReturnsNone ==
    (dpc = "done" /\ SlotInRange /\ Len(Chan) >= 1
        /\ \A i \in 1..Len(Chan) : ~Out(i))
    => ret = Returned(None)

C6_Witness ==
    /\ dpc = "done"
    /\ ScanRan
    /\ window_start = Len(Chan)
    /\ \A i \in 1..Len(Chan) : ~Out(i)
    /\ \E i, j \in 1..Len(Chan) : Chan[i][2] # Chan[j][2]
    /\ InitialWindow # 1..Len(Chan)

\* C8: detect_single_shot returns None, and never panics, when the channel list
\* is empty, input_slot >= the number of channels, or the selected channel has
\* fewer than 2 samples.
C8_InsufficientDataReturnsNone ==
    /\ ret # Panicked
    /\ (dpc = "done" /\ (Len(values) = 0 \/ ~SlotInRange \/ Len(Chan) < 2))
         => (ret = Returned(None) /\ window_start = 0)

C8_Witness ==
    /\ dpc = "done"
    /\ Len(values) = 1
    /\ trigger_config.input_slot = 1
    /\ ret = Returned(None)

\* C9: the scan closes exactly the events (s - window, e), s the first
\* out-of-tolerance timestamp after the previous close and e the timestamp at
\* which the following unbroken in-tolerance run first spans >= window; the call
\* returns the last of them, and None iff there is none.
C9_ReturnsLastClosedEvent ==
    (dpc = "done" /\ ScanRan) =>
        /\ closed = EventsAfter(0)
        /\ ret = Returned(IF EventsAfter(0) = <<>> THEN None
                          ELSE Some(EventsAfter(0)[Len(EventsAfter(0))]))

C9_Witness ==
    /\ dpc = "done"
    /\ Len(closed) >= 2
    /\ closed[1] # closed[Len(closed)]
    /\ ret = Returned(Some(closed[Len(closed)]))
    /\ trigger_config.window > 0

\* C10: a returned event (start, end) has end - start >= 2 * window; and at
\* every step of the scan a non-empty stable buffer means an event start is
\* pending, and the buffer is the run of the most recent samples, all in
\* tolerance, that follow an out-of-tolerance sample carrying the pending start.
C10_EventSpanAndStableBuffer ==
    /\ (ret.tag = "Returned" /\ ret.val # None) =>
          ret.val[1][2] - ret.val[1][1] >= 2 * trigger_config.window
    /\ last_event # None =>
          last_event[1][2] - last_event[1][1] >= 2 * trigger_config.window
    /\ (dpc # "call" /\ stable_buffer # <<>>) =>
          LET a == window_start - Len(stable_buffer) + 1 IN
          /\ IsSome(event_start)
          /\ a >= 2
          /\ stable_buffer = SubSeq(Chan, a, window_start)
          /\ \A i \in a..window_start : ~Out(i)
          /\ Out(a - 1)
          /\ \E i \in 1..(a-1) : Out(i) /\ Chan[i][1] = event_start[1]
          /\ \A k \in 1..Len(stable_buffer) : stable_buffer[k][1] >= event_start[1]

C10_Witness ==
    /\ dpc = "scan"
    /\ trigger_config.window > 0
    /\ last_event # None
    /\ IsSome(event_start)
    /\ Len(stable_buffer) = 2

----------------------------------------------------------------------------
(* What the claims about the ids speak of *)

ConstructIdx == { i \in DOMAIN log : IsConstruct(log[i]) }
DistinctIds(I) == \A i, j \in I : i # j => log[i].plot.id # log[j].plot.id
LastDeserialize ==
    LET D == { i \in DOMAIN log : log[i].op = "deserialize" }
    IN  IF D = {} THEN 0 ELSE Greatest(D)
IdsOf(plots) == { plots[i].id : i \in DOMAIN plots }

\* C1: over every sequence of new, console and update_internal_ids calls, every
\* constructed PlotData has an id distinct from those constructed earlier.
C1_IdsDistinctAcrossReloads == DistinctIds(ConstructIdx)

\* C2: when constructors race with a session load (deserialize, then
\* update_internal_ids), no PlotData constructed since the load began has the id
\* of a restored plot or of another PlotData constructed since.
C2_NoCollisionUnderRace ==
    LastDeserialize # 0 =>
        LET fresh == { i \in ConstructIdx : i > LastDeserialize }
        IN  /\ DistinctIds(fresh)
            /\ \A i \in fresh : log[i].plot.id \notin IdsOf(log[LastDeserialize].plots)

\* C3: PlotData values constructed by any mix of new and console, in any
\* interleaving and with no update_internal_ids call, have pairwise distinct ids.
C3_ConstructorsGiveDistinctIds ==
    \A i, j \in DOMAIN log :
        (i # j /\ IsConstruct(log[i]) /\ IsConstruct(log[j])) => log[i].plot.id # log[j].plot.id

C3_Witness ==
    /\ Len(log) >= 4
    /\ \E i, j \in ConstructIdx : log[i].op = "new" /\ log[j].op = "console"

\* C4 (as stated): after update_internal_ids on a non-empty loaded list with
\* maximum id M, with no concurrent access, the next PlotData constructed has
\* id > M; on an empty list the counter is unchanged.
C4_NextIdAboveLoadedMax ==
    \A u \in DOMAIN log : log[u].op = "update" =>
        IF log[u].plots = <<>>
        THEN log[u].after = log[u].before
        ELSE (u + 1 \in ConstructIdx) => log[u + 1].plot.id > MaxId(log[u].plots)

\* C4 (amended): the same, for M < usize::MAX.
C4_NextIdAboveLoadedMaxBelowLimit ==
    \A u \in DOMAIN log : log[u].op = "update" =>
        IF log[u].plots = <<>>
        THEN log[u].after = log[u].before
        ELSE (u + 1 \in ConstructIdx /\ MaxId(log[u].plots) < USIZE_MAX)
                => log[u + 1].plot.id > MaxId(log[u].plots)

C4_Witness ==
    \E u \in DOMAIN log :
        /\ log[u].op = "update"
        /\ Len(log[u].plots) = 2
        /\ MaxId(log[u].plots) < USIZE_MAX
        /\ log[u].before <= MaxId(log[u].plots)
        /\ u + 1 \in ConstructIdx
        /\ log[u + 1].plot.id = MaxId(log[u].plots) + 1

----------------------------------------------------------------------------
(* What the claim about serialize speaks of *)

\* C7: after any serialize call, successful or failed, the file at the path
\* holds its complete previous content or the complete new document.
C7_SerializeAtomic ==
    spc = "done" => (file = prev \/ file = Content(Encode(data)))

====
